---- MODULE Spec2Model ----
(***************************************************************************)
(* Model of the JWT tutorial services.                                     *)
(*                                                                         *)
(*   user service   (src/user/main.go):   POST /login -> HandleLogin       *)
(*   auth service   (src/server/main.go): every route behind               *)
(*                                        jwtAuthMiddleware                *)
(*                                                                         *)
(* HandleLogin is src/unnamed/part_000; jwtAuthMiddleware is the Go        *)
(* listing of src/README.md (lines 106-136).  Both call                    *)
(* github.com/golang-jwt/jwt/v5 with its default options; the operators    *)
(* named after the library's functions model what the library does at the  *)
(* call sites.                                                             *)
(*                                                                         *)
(* Strings that the code inspects character by character (the              *)
(* Authorization header, algorithm names) are sequences of one-character   *)
(* strings.  Time is in Unix seconds.  A token is kept in decoded form     *)
(* (declared algorithm, payload, signature); its signature is the          *)
(* symbolic value HMAC(alg, key, signing input), so two signatures are     *)
(* equal exactly when algorithm, key and signed text are.                  *)
(***************************************************************************)
EXTENDS Integers, Sequences, FiniteSets, TLC

VARIABLES
    now,          \* the wall clock, Unix seconds
    JwtKey,       \* the package variable JwtKey of each process
    OurUser,      \* the reference record HandleLogin compares against
    held,         \* the token of the most recent 200 login (NoToken before)
    last          \* observed: the request handled at this instant, with
                  \* its response, until the clock moves on

vars == <<now, JwtKey, OurUser, held, last>>

(***************************************************************************)
(* Bounds of the model.                                                    *)
(***************************************************************************)
\* The instants of the model are the first Slack + 1 seconds and the
\* Slack + 1 seconds that start one token lifetime later.
Slack == 1
\* Largest number of whole seconds the clock may advance between the two
\* time.Now() calls of one HandleLogin.
MaxReadGap == 1

(***************************************************************************)
(* Program constants.                                                      *)
(***************************************************************************)
\* 24 * time.Hour, in seconds
TokenTTL == 86400
StatusOK == 200
StatusBadRequest == 400
StatusUnauthorized == 401
StatusInternalServerError == 500

MaxTime == TokenTTL + Slack
Instants == (0..Slack) \cup (TokenTTL..MaxTime)

(***************************************************************************)
(* Text.                                                                   *)
(***************************************************************************)
Bearer == <<"B", "e", "a", "r", "e", "r">>
bearerLower == <<"b", "e", "a", "r", "e", "r">>
BEARER == <<"B", "E", "A", "R", "E", "R">>
Basic == <<"B", "a", "s", "i", "c">>
SP == <<" ">>
TAB == <<"\t">>
\* Stands for the characters of the token carried by the header.
TOK == <<"#">>
X == <<"x">>

HS256 == <<"H", "S", "2", "5", "6">>
HS384 == <<"H", "S", "3", "8", "4">>
HS512 == <<"H", "S", "5", "1", "2">>
RS256 == <<"R", "S", "2", "5", "6">>
ES256 == <<"E", "S", "2", "5", "6">>
PS256 == <<"P", "S", "2", "5", "6">>
EdDSA == <<"E", "d", "D", "S", "A">>
AlgNone == <<"n", "o", "n", "e">>
\* Algorithm names no signing method is registered under.
AlgUnknown == <<"X", "X">>
AlgHS999 == <<"H", "S", "9", "9", "9">>
AlgMissing == <<>>

(***************************************************************************)
(* Values.  A Go value of a claim map and a JSON value have the same       *)
(* shape: a type tag, a string part and a numeric part.                    *)
(***************************************************************************)
GoString(s) == [t |-> "string", s |-> s, n |-> 0]
GoInt64(n) == [t |-> "int64", s |-> "", n |-> n]
GoFloat64(n) == [t |-> "float64", s |-> "", n |-> n]
JString(s) == [t |-> "jstring", s |-> s, n |-> 0]
JNumber(n) == [t |-> "jnumber", s |-> "", n |-> n]

NoClaims == [k \in {} |-> GoString("")]

\* encoding/json: Marshal of one claim value.
MarshalValue(v) ==
    IF v.t = "string" THEN JString(v.s) ELSE JNumber(v.n)

\* encoding/json: Unmarshal of one JSON value into interface{}: every
\* number becomes a float64.
UnmarshalValue(j) ==
    IF j.t = "jstring" THEN GoString(j.s) ELSE GoFloat64(j.n)

MarshalClaims(c) == [k \in DOMAIN c |-> MarshalValue(c[k])]
UnmarshalClaims(p) == [k \in DOMAIN p |-> UnmarshalValue(p[k])]

(***************************************************************************)
(* Signing.                                                                *)
(***************************************************************************)
SecretKey == "supersecretkey"
OtherKey == "attackerkey"

HMAC(alg, key, input) == [alg |-> alg, key |-> key, input |-> input]
BadSignature == [alg |-> <<>>, key |-> "", input |-> <<>>]

\* The text a signature covers: encoded header "." encoded payload.
SigningString(alg, payloadOk, payload) == <<alg, payloadOk, payload>>

NoToken ==
    [alg |-> AlgMissing, payloadOk |-> FALSE, payload |-> NoClaims,
     sig |-> BadSignature]

\* jwt.NewWithClaims(jwt.SigningMethodHS256, claims) then
\* token.SignedString(key): header {"alg":"HS256","typ":"JWT"}, the claims
\* as JSON, and the HS256 signature over both.
SignedString(claims, key) ==
    LET payload == MarshalClaims(claims)
    IN [alg |-> HS256, payloadOk |-> TRUE, payload |-> payload,
        sig |-> HMAC(HS256, key, SigningString(HS256, TRUE, payload))]

(***************************************************************************)
(* POST /login: HandleLogin.                                               *)
(***************************************************************************)
\* The JSON keys of the User type.
UserFields == {"username", "password"}

\* The reference record OurUser: one fixed pair per run of the service.
ReferenceRecords ==
    {[Username |-> "alice", Password |-> "correct"],
     [Username |-> "", Password |-> ""]}

\* json.NewDecoder(r.Body).Decode(&req): an error for a body that is not
\* JSON (or is empty) and for a field that is not a JSON string; an absent
\* field leaves the zero value "".
DecodeUser(body) ==
    LET field(k) ==
            IF k \in DOMAIN body.fields /\ body.fields[k].t = "jstring"
            THEN body.fields[k].s ELSE ""
    IN [err |-> \/ ~body.syntaxOk
                \/ \E k \in DOMAIN body.fields : body.fields[k].t # "jstring",
        req |-> [Username |-> field("username"),
                 Password |-> field("password")]]

\* Variant: && in place of ||.
CredentialsRejected_And(req, ourUser) ==
    req.Password # ourUser.Password /\ req.Username # ourUser.Username

\* req.Password != OurUser.Password || req.Username != OurUser.Username
CredentialsRejected(req, ourUser) ==
    req.Password # ourUser.Password \/ req.Username # ourUser.Username

\* jwt.MapClaims{"sub": ..., "iat": time.Now().Unix(),
\*               "exp": time.Now().Add(24 * time.Hour).Unix()}
\* t1 and t2 are the two readings of the clock.
IssueClaims(username, t1, t2) ==
    [sub |-> GoString(username), iat |-> GoInt64(t1),
     exp |-> GoInt64(t2 + TokenTTL)]

\* http.Error(w, text, status): the status and the text, and no token.
HttpError(text, status) ==
    [status |-> status, text |-> text, hasToken |-> FALSE,
     token |-> NoToken, tokenType |-> "", claims |-> NoClaims]

\* Variant: no return after the 400, so that the handler goes on with the
\* zero-valued request.
LoginResult_NoReturnOn400(body, ourUser, key, t1, t2, signErr) ==
    LET d == DecodeUser(body)
        req == IF d.err THEN [Username |-> "", Password |-> ""] ELSE d.req
        claims == IssueClaims(req.Username, t1, t2)
    IN IF CredentialsRejected(req, ourUser)
       THEN HttpError("invalid credentials", StatusUnauthorized)
       ELSE IF signErr
       THEN HttpError("server error", StatusInternalServerError)
       ELSE [status |-> StatusOK, text |-> "", hasToken |-> TRUE,
             token |-> SignedString(claims, key), tokenType |-> "bearer",
             claims |-> claims]

\* The whole handler.  signErr is the error result of SignedString.
LoginResult(body, ourUser, key, t1, t2, signErr) ==
    LET d == DecodeUser(body)
        claims == IssueClaims(d.req.Username, t1, t2)
    IN IF d.err THEN HttpError("bad request", StatusBadRequest)
       ELSE IF CredentialsRejected(d.req, ourUser)
       THEN HttpError("invalid credentials", StatusUnauthorized)
       ELSE IF signErr
       THEN HttpError("server error", StatusInternalServerError)
       ELSE [status |-> StatusOK, text |-> "", hasToken |-> TRUE,
             token |-> SignedString(claims, key), tokenType |-> "bearer",
             claims |-> claims]

\* Request bodies.
BodyValues(k) ==
    IF k = "username"
    THEN {JString("alice"), JString("bob"), JNumber(1)}
    ELSE {JString("correct"), JString("wrong"), JNumber(1)}

Bodies ==
    {[syntaxOk |-> FALSE, fields |-> NoClaims]} \cup
    UNION {{[syntaxOk |-> TRUE, fields |-> f] :
                f \in {g \in [D -> UNION {BodyValues(k) : k \in D}] :
                          \A k \in D : g[k] \in BodyValues(k)}}
           : D \in SUBSET UserFields}

\* Which field of a parsed request differs from the reference record.
MismatchKind(req, ourUser) ==
    IF req.Username # ourUser.Username /\ req.Password # ourUser.Password
    THEN "both"
    ELSE IF req.Username # ourUser.Username THEN "username"
    ELSE IF req.Password # ourUser.Password THEN "password"
    ELSE "none"

NoRequest == [handler |-> "none"]

NoMismatch == [kind |-> "none", resp |-> HttpError("", 0)]

\* Observed with a login: the response of the login handled just before
\* it, when that one parsed and did not match the reference record.
PreviousMismatch ==
    IF last.handler = "login"
    THEN LET d == DecodeUser(last.body)
             kind == MismatchKind(d.req, OurUser)
         IN IF ~d.err /\ kind # "none"
            THEN [kind |-> kind, resp |-> last.resp]
            ELSE NoMismatch
    ELSE NoMismatch

HandleLogin ==
    \E body \in Bodies, gap \in 0..MaxReadGap, signErr \in BOOLEAN :
        /\ now + gap \in Instants
        /\ LET r == LoginResult(body, OurUser, JwtKey.user, now, now + gap,
                                signErr)
               d == DecodeUser(body)
           IN /\ last' = [handler |-> "login", at |-> now, body |-> body,
                          signErr |-> signErr, resp |-> r,
                          before |-> PreviousMismatch]
              /\ held' = IF r.hasToken
                         THEN [token |-> r.token, username |-> d.req.Username,
                               claims |-> r.claims]
                         ELSE held
        /\ now' = now + gap
        /\ UNCHANGED <<JwtKey, OurUser>>

(***************************************************************************)
(* Protected routes: jwtAuthMiddleware.                                    *)
(***************************************************************************)
\* strings.ToLower, on the letters the model's headers are written in.
LowerChar(c) ==
    CASE c = "B" -> "b"
      [] c = "E" -> "e"
      [] c = "A" -> "a"
      [] c = "R" -> "r"
      [] OTHER -> c

ToLower(s) == [i \in 1..Len(s) |-> LowerChar(s[i])]

IsSpace(c) == c \in {" ", "\t"}

\* The white-space-separated parts of a text (what strings.Fields
\* returns).
RECURSIVE FieldsFrom(_, _, _)
FieldsFrom(h, i, cur) ==
    LET done == IF cur = <<>> THEN <<>> ELSE <<cur>>
    IN IF i > Len(h) THEN done
       ELSE IF IsSpace(h[i]) THEN done \o FieldsFrom(h, i + 1, <<>>)
       ELSE FieldsFrom(h, i + 1, Append(cur, h[i]))

Fields(h) == FieldsFrom(h, 1, <<>>)

\* Variant: the header is cut at every run of white space.
SplitN_Fields(h) == Fields(h)

\* strings.SplitN(h, " ", 2): cut at the first space, if there is one.
SplitN(h) ==
    IF \E i \in 1..Len(h) : h[i] = " "
    THEN LET i == CHOOSE j \in 1..Len(h) :
                    h[j] = " " /\ \A k \in 1..(j - 1) : h[k] # " "
         IN <<SubSeq(h, 1, i - 1), SubSeq(h, i + 1, Len(h))>>
    ELSE <<h>>

\* Variant: the scheme is not compared.
InvalidHeader_NoSchemeCheck(parts) == Len(parts) # 2

\* len(parts) != 2 || strings.ToLower(parts[0]) != "bearer"
InvalidHeader(parts) ==
    Len(parts) # 2 \/ ToLower(parts[1]) # bearerLower

\* The signing methods the library registers.
RegisteredMethods ==
    {HS256, HS384, HS512, RS256, ES256, PS256, EdDSA, AlgNone}

HMACMethods == {HS256, HS384, HS512}

\* Variant: the key function returns the key whatever the algorithm.
KeyFunc_NoCheck(alg, jwtKey) == [err |-> FALSE, key |-> jwtKey]

\* Variant: the comparison of the key function is inverted.
KeyFunc_Inverted(alg, jwtKey) ==
    IF SubSeq(alg, 1, 2) = <<"H", "S">>
    THEN [err |-> TRUE, key |-> ""]
    ELSE [err |-> FALSE, key |-> jwtKey]

\* The key function given to jwt.Parse:
\*   if t.Method.Alg()[:2] != "HS" { return nil, jwt.ErrTokenSignatureInvalid }
\*   return JwtKey, nil
KeyFunc(alg, jwtKey) ==
    IF SubSeq(alg, 1, 2) # <<"H", "S">>
    THEN [err |-> TRUE, key |-> ""]
    ELSE [err |-> FALSE, key |-> jwtKey]

\* token.Method.Verify(signingString, signature, key): an HMAC method
\* recomputes the signature with the key; every other method refuses a
\* []byte key.
Verify(alg, signingString, sig, key) ==
    alg \in HMACMethods /\ sig = HMAC(alg, key, signingString)

\* The default validator on MapClaims: exp is checked when present (a
\* number; the number 0 counts as absent), iat and sub are not looked at.
\* The result is "" or the error.
ValidateClaims(claims, t) ==
    IF "exp" \notin DOMAIN claims THEN ""
    ELSE IF claims["exp"].t # "float64" THEN "invalid type"
    ELSE IF claims["exp"].n = 0 THEN ""
    ELSE IF t < claims["exp"].n THEN ""
    ELSE "expired"

ParseFailure(err, steps, keyReturned) ==
    [err |-> err, valid |-> FALSE, claims |-> NoClaims, steps |-> steps,
     keyReturned |-> keyReturned]

\* jwt.Parse(tokenStr, keyFunc) at time t.  tokenStr is the text handed
\* over and tok the token whose characters TOK stands for: any other text
\* has the wrong number of segments or a segment that does not decode.
Parse(tokenStr, tok, jwtKey, t) ==
    LET claims == UnmarshalClaims(tok.payload)
        key == KeyFunc(tok.alg, jwtKey)
        signed == SigningString(tok.alg, tok.payloadOk, tok.payload)
        verr == ValidateClaims(claims, t)
    IN IF tokenStr # TOK \/ ~tok.payloadOk
       THEN ParseFailure("malformed", <<"Parse">>, FALSE)
       ELSE IF tok.alg \notin RegisteredMethods
       THEN ParseFailure("unverifiable", <<"Parse">>, FALSE)
       ELSE IF key.err
       THEN ParseFailure("unverifiable", <<"Parse", "KeyFunc">>, FALSE)
       ELSE IF ~Verify(tok.alg, signed, tok.sig, key.key)
       THEN ParseFailure("signature invalid",
                         <<"Parse", "KeyFunc", "Verify">>, TRUE)
       ELSE IF verr # ""
       THEN ParseFailure(verr, <<"Parse", "KeyFunc", "Verify", "Validate">>,
                         TRUE)
       ELSE [err |-> "", valid |-> TRUE, claims |-> claims,
             steps |-> <<"Parse", "KeyFunc", "Verify", "Validate">>,
             keyReturned |-> TRUE]

Rejected(text, steps, keyReturned, parseErr) ==
    [status |-> StatusUnauthorized, text |-> text, outcome |-> "Rejected",
     steps |-> steps, keyReturned |-> keyReturned, parseErr |-> parseErr,
     ctx |-> NoClaims]

\* Variant: no return after the 401 for an invalid token, so that next is
\* called all the same.
MiddlewareResult_NoReturn(h, tok, jwtKey, t) ==
    LET parts == SplitN(h)
        p == Parse(parts[2], tok, jwtKey, t)
    IN IF h = <<>>
       THEN Rejected("missing Authorization header", <<>>, FALSE, "")
       ELSE IF InvalidHeader(parts)
       THEN Rejected("invalid Authorization header", <<>>, FALSE, "")
       ELSE [status |-> IF p.err # "" \/ ~p.valid
                        THEN StatusUnauthorized ELSE 0,
             text |-> IF p.err # "" \/ ~p.valid THEN "invalid token" ELSE "",
             outcome |-> IF p.err # "" \/ ~p.valid
                         THEN "Rejected" ELSE "Authorized",
             steps |-> p.steps \o <<"Next">>, keyReturned |-> p.keyReturned,
             parseErr |-> p.err, ctx |-> p.claims]

\* The whole handler jwtAuthMiddleware returns, for the header h carrying
\* token tok, handled at time t.  status and text are what the middleware
\* itself writes (nothing when it calls next); ctx is the value stored under
\* ClaimsContextKey for the wrapped handler.
MiddlewareResult(h, tok, jwtKey, t) ==
    LET parts == SplitN(h)
        p == Parse(parts[2], tok, jwtKey, t)
    IN IF h = <<>>
       THEN Rejected("missing Authorization header", <<>>, FALSE, "")
       ELSE IF InvalidHeader(parts)
       THEN Rejected("invalid Authorization header", <<>>, FALSE, "")
       ELSE IF p.err # "" \/ ~p.valid
       THEN Rejected("invalid token", p.steps, p.keyReturned, p.err)
       ELSE [status |-> 0, text |-> "", outcome |-> "Authorized",
             steps |-> p.steps \o <<"Next">>, keyReturned |-> p.keyReturned,
             parseErr |-> "", ctx |-> p.claims]

(***************************************************************************)
(* The requests of the model.                                              *)
(***************************************************************************)
\* A payload from three optional claims: each argument is the empty set
\* (claim absent) or the set of its one JSON value.
Payload(sub, iat, exp) ==
    LET D == {k \in {"sub", "iat", "exp"} :
                (CASE k = "sub" -> sub [] k = "iat" -> iat [] OTHER -> exp) # {}}
    IN [k \in D |-> CHOOSE v \in (CASE k = "sub" -> sub [] k = "iat" -> iat
                                   [] OTHER -> exp) : TRUE]

SubOptions == {{}, {JString("alice")}, {JNumber(7)}}
IatOptions == {{}, {JNumber(0)}, {JString("now")}}
ExpOptions ==
    {{}, {JNumber(0)}, {JNumber(1)}, {JNumber(TokenTTL)},
     {JNumber(MaxTime + 1)}, {JString("never")}}

\* The payloads that differ from a well-formed one in at most one claim.
Payloads ==
    {Payload(s, {JNumber(0)}, {JNumber(MaxTime + 1)}) : s \in SubOptions}
    \cup {Payload({JString("alice")}, i, {JNumber(MaxTime + 1)}) :
            i \in IatOptions}
    \cup {Payload({JString("alice")}, {JNumber(0)}, e) : e \in ExpOptions}

WellFormedPayload ==
    Payload({JString("alice")}, {JNumber(0)}, {JNumber(MaxTime + 1)})

\* The signatures a token may carry: an HMAC over its own header and
\* payload under either key (computed with HS256 when the token declares
\* an algorithm that is not an HMAC), or bytes that are no such HMAC.
Signatures(alg, payloadOk, payload) ==
    {HMAC(IF alg \in HMACMethods THEN alg ELSE HS256, k,
          SigningString(alg, payloadOk, payload)) : k \in {SecretKey, OtherKey}}
    \cup {BadSignature}

TokensOf(algs, payloads) ==
    UNION {{[alg |-> a, payloadOk |-> TRUE, payload |-> p, sig |-> g] :
                g \in Signatures(a, TRUE, p)} : a \in algs, p \in payloads}

\* A token whose payload segment does not decode.
GarbageToken ==
    [alg |-> HS256, payloadOk |-> FALSE, payload |-> NoClaims,
     sig |-> HMAC(HS256, SecretKey, SigningString(HS256, FALSE, NoClaims))]

ForgedTokens ==
    TokensOf({HS256}, Payloads)
    \cup TokensOf({HS384, HS512, RS256, ES256, PS256, EdDSA, AlgNone,
                   AlgUnknown, AlgHS999, AlgMissing}, {WellFormedPayload})
    \cup {GarbageToken}

SampleToken ==
    [alg |-> HS256, payloadOk |-> TRUE, payload |-> WellFormedPayload,
     sig |-> HMAC(HS256, SecretKey,
                  SigningString(HS256, TRUE, WellFormedPayload))]

\* Header values that carry a token in another way than "Bearer <token>".
TokenTexts ==
    {bearerLower \o SP \o TOK, BEARER \o SP \o TOK, Basic \o SP \o TOK,
     Bearer \o TAB \o TOK, Bearer \o SP \o SP \o TOK,
     Bearer \o SP \o TAB \o TOK, Bearer \o TAB \o SP \o TOK,
     Bearer \o SP \o TOK \o SP \o X, Bearer \o SP \o X \o SP \o TOK,
     Bearer \o SP \o TOK \o TAB \o X, Basic \o SP \o TOK \o SP \o X,
     TOK, Bearer \o TOK, TOK \o SP \o Bearer}

\* Header values that carry none.
PlainTexts ==
    {<<>>, Bearer, bearerLower, Basic, X, Bearer \o SP \o X,
     Bearer \o SP \o X \o SP \o X, Basic \o TAB \o X, X \o SP \o X}

\* net/http hands a handler header values without leading or trailing
\* white space, so no header of the model starts or ends with it.
Headers(heldToken) ==
    {[text |-> Bearer \o SP \o TOK, tok |-> k] :
        k \in ForgedTokens \cup {heldToken}}
    \cup {[text |-> x, tok |-> k] :
            x \in TokenTexts, k \in {SampleToken, heldToken}}
    \cup {[text |-> x, tok |-> NoToken] : x \in PlainTexts}

(***************************************************************************)
(* The state machine.                                                      *)
(***************************************************************************)
\* JwtKey = []byte("supersecretkey") in main of the user service.
UserMain == SecretKey

\* JwtKey = []byte("supersecretkey") in main of the auth service.
ServerMain == SecretKey

Init ==
    /\ now = 0
    /\ JwtKey = [user |-> UserMain, server |-> ServerMain]
    /\ OurUser \in ReferenceRecords
    /\ held = [token |-> NoToken, username |-> "", claims |-> NoClaims]
    /\ last = NoRequest

\* Time passes.
Tick ==
    \E t \in Instants :
        /\ now < t
        /\ now' = t
        /\ last' = NoRequest
        /\ UNCHANGED <<JwtKey, OurUser, held>>

jwtAuthMiddleware ==
    \E h \in Headers(held.token) :
        /\ last' = [handler |-> "auth", at |-> now, header |-> h,
                    resp |-> MiddlewareResult(h.text, h.tok, JwtKey.server,
                                              now)]
        /\ UNCHANGED <<now, JwtKey, OurUser, held>>

\* Both services and a client.
Next == Tick \/ HandleLogin \/ jwtAuthMiddleware

Spec == Init /\ [][Next]_vars

\* The user service alone.
NextUser == Tick \/ HandleLogin

SpecUser == Init /\ [][NextUser]_vars

\* The auth service alone.
NextServer == Tick \/ jwtAuthMiddleware

SpecServer == Init /\ [][NextServer]_vars

(***************************************************************************)
(* Vocabulary of the properties.                                           *)
(***************************************************************************)
IsLogin == last.handler = "login"
IsAuth == last.handler = "auth"

Has(steps, x) == \E i \in 1..Len(steps) : steps[i] = x

\* "Bearer" in any case, one space, and the token.
IsBearerToken(h) ==
    /\ Len(Fields(h)) = 2
    /\ ToLower(Fields(h)[1]) = bearerLower
    /\ h = Fields(h)[1] \o SP \o Fields(h)[2]

\* The name of an algorithm of the HMAC family.
IsHSName(alg) == Len(alg) >= 2 /\ alg[1] = "H" /\ alg[2] = "S"

\* The token's signature is the one its declared algorithm computes with
\* the key over the token's own header and payload.
CorrectlySigned(tok, key) ==
    tok.sig = HMAC(tok.alg, key,
                   SigningString(tok.alg, tok.payloadOk, tok.payload))

\* The request was a parsed login that did not match the reference record.
ParsedBody(body) ==
    /\ body.syntaxOk
    /\ \A k \in DOMAIN body.fields : body.fields[k].t = "jstring"

Submitted(body, k) ==
    IF k \in DOMAIN body.fields THEN body.fields[k].s ELSE ""

Matches(body) ==
    /\ Submitted(body, "username") = OurUser.Username
    /\ Submitted(body, "password") = OurUser.Password

(***************************************************************************)
(* Properties.                                                             *)
(***************************************************************************)

\* C1: a login that matches the reference record returns a token signed
\* over the issued claims, whose sub is the submitted username; presented
\* as "Bearer <token>" to the middleware, under the same key and before the
\* token's exp, that token is accepted: next is called, and the claims put
\* in the request context have the names and values of the issued claims
\* (the numbers come back as float64), with sub the submitted username.
C1_RoundTrip ==
    /\ (IsLogin /\ last.resp.hasToken) =>
          /\ Matches(last.body)
          /\ held.token = last.resp.token
          /\ held.username = Submitted(last.body, "username")
          /\ held.claims["sub"] = GoString(held.username)
          /\ CorrectlySigned(held.token, JwtKey.user)
          /\ held.token.payload = MarshalClaims(held.claims)
    /\ (/\ IsAuth
        /\ held.token # NoToken
        /\ last.header = [text |-> Bearer \o SP \o TOK, tok |-> held.token]
        /\ JwtKey.server = JwtKey.user
        /\ last.at < held.claims["exp"].n) =>
          /\ last.resp.outcome = "Authorized"
          /\ Has(last.resp.steps, "Next")
          /\ DOMAIN last.resp.ctx = DOMAIN held.claims
          /\ MarshalClaims(last.resp.ctx) = MarshalClaims(held.claims)
          /\ last.resp.ctx["sub"] = GoString(held.username)

\* C1: an issued token is accepted in the last second before its exp.
C1_Witness ==
    /\ IsAuth
    /\ held.token # NoToken
    /\ last.header = [text |-> Bearer \o SP \o TOK, tok |-> held.token]
    /\ last.at + 1 = held.claims["exp"].n
    /\ last.resp.outcome = "Authorized"
    /\ last.resp.ctx["sub"] = GoString("alice")
    /\ held.username = "alice"

\* C2: for every issued token, exp minus iat is exactly 24 hours (86400
\* seconds), whatever the instant of the login.
C2_ExactLifetime ==
    (IsLogin /\ last.resp.hasToken) =>
        last.resp.claims["exp"].n - last.resp.claims["iat"].n = TokenTTL

\* C3: any two logins whose bodies parse and whose credentials do not match
\* get the identical response, 401 "invalid credentials" without a token,
\* whichever field differs.
C3_UniformRejection ==
    (/\ IsLogin
     /\ ParsedBody(last.body)
     /\ ~Matches(last.body)
     /\ last.before.kind # "none") =>
        /\ last.resp = last.before.resp
        /\ last.resp.status = StatusUnauthorized
        /\ last.resp.text = "invalid credentials"
        /\ ~last.resp.hasToken
        /\ last.resp.token = NoToken

\* C3: a login with a wrong password right after one with a wrong
\* username.
C3_Witness ==
    /\ IsLogin
    /\ ParsedBody(last.body)
    /\ Submitted(last.body, "username") = OurUser.Username
    /\ Submitted(last.body, "password") # OurUser.Password
    /\ last.before.kind = "username"
    /\ last.resp.status = StatusUnauthorized

\* The token of the request fails verification: its algorithm is not an
\* HMAC the library knows, its signature is not the key's, its payload does
\* not decode, or its exp is not a number or is a number other than 0 that
\* the clock has reached.
CodecFailure(tok, key, t) ==
    \/ tok.alg \notin HMACMethods
    \/ ~CorrectlySigned(tok, key)
    \/ ~tok.payloadOk
    \/ /\ "exp" \in DOMAIN tok.payload
       /\ \/ tok.payload["exp"].t # "jnumber"
          \/ tok.payload["exp"].n # 0 /\ tok.payload["exp"].n <= t

\* C4: the wrapped handler is called exactly when the request ends
\* Authorized, which is exactly when the token was parsed without error;
\* every failure of the token verification ends in 401 "invalid token"
\* without the wrapped handler; every request ends Authorized or Rejected.
C4_NextIffAuthorized ==
    IsAuth =>
        LET r == last.resp
        IN /\ r.outcome \in {"Authorized", "Rejected"}
           /\ Has(r.steps, "Next") <=> r.outcome = "Authorized"
           /\ r.outcome = "Authorized" <=>
                (Has(r.steps, "Validate") /\ r.parseErr = "")
           /\ r.outcome = "Rejected" => r.status = StatusUnauthorized
           /\ r.parseErr # "" =>
                /\ r.status = StatusUnauthorized
                /\ r.text = "invalid token"
                /\ ~Has(r.steps, "Next")
           /\ (/\ Has(r.steps, "Parse")
               /\ CodecFailure(last.header.tok, JwtKey.server, last.at)) =>
                /\ r.status = StatusUnauthorized
                /\ r.text = "invalid token"
                /\ r.outcome = "Rejected"
                /\ ~Has(r.steps, "Next")

\* C4: a token with the key's signature that has expired is turned away
\* with "invalid token".
C4_Witness ==
    /\ IsAuth
    /\ last.resp.parseErr = "expired"
    /\ CorrectlySigned(last.header.tok, JwtKey.server)
    /\ last.resp.text = "invalid token"
    /\ ~Has(last.resp.steps, "Next")

\* C5: a request without Authorization header, with a scheme other than
\* "Bearer" or with a header of a single part gets 401 before jwt.Parse or
\* its key function runs, and the wrapped handler is not called.
C5_RejectedBeforeDecoding ==
    (/\ IsAuth
     /\ \/ last.header.text = <<>>
        \/ Len(Fields(last.header.text)) = 1
        \/ ToLower(Fields(last.header.text)[1]) # bearerLower) =>
        /\ last.resp.status = StatusUnauthorized
        /\ last.resp.outcome = "Rejected"
        /\ last.resp.steps = <<>>
        /\ ~last.resp.keyReturned

\* C5: "Basic <token>" with a token the middleware would accept.
C5_Witness ==
    /\ IsAuth
    /\ last.header = [text |-> Basic \o SP \o TOK, tok |-> SampleToken]
    /\ last.resp.status = StatusUnauthorized
    /\ last.resp.steps = <<>>

\* C6 as stated: a header reaches token verification only if it has
\* exactly two white-space-separated parts, the first "bearer" in any case;
\* every other non-empty header, also one of three parts or one whose parts
\* are separated by other white space than one space, is rejected with 401
\* "invalid Authorization header".
C6_Original ==
    IsAuth =>
        /\ Has(last.resp.steps, "Parse") =>
              /\ Len(Fields(last.header.text)) = 2
              /\ ToLower(Fields(last.header.text)[1]) = bearerLower
        /\ (last.header.text # <<>> /\ ~IsBearerToken(last.header.text)) =>
              /\ last.resp.status = StatusUnauthorized
              /\ last.resp.text = "invalid Authorization header"

\* The header has a space, and the text before its first space is "bearer"
\* in any case.
BearerBeforeFirstSpace(h) ==
    \E i \in 1..Len(h) :
        /\ h[i] = " "
        /\ \A k \in 1..(i - 1) : h[k] # " "
        /\ ToLower(SubSeq(h, 1, i - 1)) = bearerLower

\* C6, amended: a header reaches token verification exactly when it has a
\* space and the text before its first space is "bearer" in any case (so
\* it has at least two white-space-separated parts, the first "bearer");
\* everything after that space is the token string.  Every other non-empty
\* header is rejected with 401 "invalid Authorization header"; a header
\* that reaches verification and is not "bearer", one space and the token
\* is rejected there, with 401 "invalid token".
C6_Amended ==
    IsAuth =>
        LET h == last.header.text
            r == last.resp
        IN /\ Has(r.steps, "Parse") <=> BearerBeforeFirstSpace(h)
           /\ Has(r.steps, "Parse") =>
                /\ Len(Fields(h)) >= 2
                /\ ToLower(Fields(h)[1]) = bearerLower
           /\ (h # <<>> /\ ~BearerBeforeFirstSpace(h)) =>
                /\ r.status = StatusUnauthorized
                /\ r.text = "invalid Authorization header"
           /\ (BearerBeforeFirstSpace(h) /\ ~IsBearerToken(h)) =>
                /\ r.status = StatusUnauthorized
                /\ r.text = "invalid token"
                /\ r.outcome = "Rejected"

\* C6: a header of three parts reaches token verification and is rejected
\* there.
C6_Witness ==
    /\ IsAuth
    /\ last.header.text = Bearer \o SP \o TOK \o SP \o X
    /\ Has(last.resp.steps, "Parse")
    /\ last.resp.text = "invalid token"

\* C7: a token whose exp lies in the past at verification time is rejected
\* with 401, also when its signature is the key's.
C7_ExpiredRejected ==
    (/\ IsAuth
     /\ Has(last.resp.steps, "Parse")
     /\ last.header.tok.payloadOk
     /\ "exp" \in DOMAIN last.header.tok.payload
     /\ last.header.tok.payload["exp"].t = "jnumber"
     /\ last.header.tok.payload["exp"].n < last.at) =>
        /\ last.resp.outcome = "Rejected"
        /\ last.resp.status = StatusUnauthorized

\* The claim is there with the type the specification gives it.
WellTyped(claims, k) ==
    /\ k \in DOMAIN claims
    /\ claims[k].t = (IF k = "sub" THEN "string" ELSE "float64")

\* C8: a token with the key's signature that lacks sub, iat or exp, or
\* carries one of them with the wrong type, is rejected with 401; so the
\* wrapped handler never gets claims in which sub is absent or no string.
C8_RequiredClaims ==
    IsAuth =>
        /\ (/\ Has(last.resp.steps, "Parse")
            /\ last.header.tok.payloadOk
            /\ \E k \in {"sub", "iat", "exp"} :
                  ~WellTyped(UnmarshalClaims(last.header.tok.payload), k)) =>
              /\ last.resp.outcome = "Rejected"
              /\ last.resp.status = StatusUnauthorized
        /\ Has(last.resp.steps, "Next") => WellTyped(last.resp.ctx, "sub")

\* C9: the declared algorithm is checked before the key is used.  For a
\* token whose algorithm name does not start with "HS" the key function,
\* if the parse gets to it, returns an error; JwtKey is not handed out, no
\* signature is computed and the request is rejected.  For every token, a
\* signature is computed only after the key function has let an "HS" name
\* through.
C9_AlgorithmBeforeKey ==
    IsAuth =>
        LET r == last.resp
            alg == last.header.tok.alg
        IN /\ (Has(r.steps, "Parse") /\ ~IsHSName(alg)) =>
                /\ ~r.keyReturned
                /\ ~Has(r.steps, "Verify")
                /\ r.outcome = "Rejected"
                /\ r.status = StatusUnauthorized
                /\ ~Has(r.steps, "Next")
                /\ Has(r.steps, "KeyFunc") => r.parseErr = "unverifiable"
           /\ Has(r.steps, "Verify") =>
                /\ IsHSName(alg)
                /\ r.keyReturned
                /\ \E i, j \in 1..Len(r.steps) :
                      i < j /\ r.steps[i] = "KeyFunc" /\ r.steps[j] = "Verify"

\* C9: a token that declares RS256 and carries an HMAC made with the
\* service's key stops at the key function.
C9_Witness ==
    /\ IsAuth
    /\ last.header.text = Bearer \o SP \o TOK
    /\ last.header.tok.alg = RS256
    /\ last.header.tok.sig.key = JwtKey.server
    /\ last.resp.steps = <<"Parse", "KeyFunc">>
    /\ ~last.resp.keyReturned
    /\ last.resp.outcome = "Rejected"

\* The response of the login, from the request alone.
C10_Outcome ==
    IsLogin =>
        LET b == last.body
            r == last.resp
        IN /\ r.status \in {StatusOK, StatusBadRequest, StatusUnauthorized,
                            StatusInternalServerError}
           /\ ~ParsedBody(b) =>
                r.status = StatusBadRequest /\ r.text = "bad request"
           /\ (ParsedBody(b) /\ ~Matches(b)) =>
                r.status = StatusUnauthorized
           /\ (ParsedBody(b) /\ Matches(b) /\ last.signErr) =>
                /\ r.status = StatusInternalServerError
                /\ r.text = "server error"
           /\ (ParsedBody(b) /\ Matches(b) /\ ~last.signErr) =>
                /\ r.status = StatusOK
                /\ r.tokenType = "bearer"
                /\ r.token # NoToken
           /\ r.hasToken <=> r.status = StatusOK
           /\ r.status # StatusOK => r.token = NoToken

\* C10: every login ends in one of four outcomes, decided in this order:
\* 400 "bad request" for a body that does not parse, else 401 for
\* credentials that do not match, else 500 "server error" when signing
\* fails, else 200 with access_token and token_type "bearer"; only the 200
\* response carries a token, and no login changes JwtKey or the reference
\* record.
C10_LoginOutcomes ==
    /\ []C10_Outcome
    /\ [][JwtKey' = JwtKey /\ OurUser' = OurUser]_vars

\* C10: a body whose username is not a string gets 400 although its
\* password is the wrong one.
C10_Witness ==
    /\ IsLogin
    /\ last.body.syntaxOk
    /\ ~ParsedBody(last.body)
    /\ Submitted(last.body, "password") = "wrong"
    /\ last.resp.status = StatusBadRequest

====
